---- MODULE Spec2Model ----
(***************************************************************************)
(* A model of irv.py: a Flask application that stores elections,           *)
(* positions, candidates, voters and ranked votes through one module-level *)
(* SQLAlchemy session (autoflush on, no rollback handler anywhere).        *)
(*                                                                         *)
(* Library semantics the handlers rely on, as modelled here:               *)
(*  - a query first flushes the session's pending objects (autoflush);     *)
(*  - an object assigned to a relationship of an object in the session is  *)
(*    pending at once (save-update cascade over the backref);              *)
(*  - a flush that violates a constraint rolls the whole open transaction  *)
(*    back and leaves the session unusable until Session.rollback(),       *)
(*    which irv.py never calls;                                            *)
(*  - commit = flush, then make the open transaction durable.              *)
(*                                                                         *)
(* Table votes declares two UNIQUE constraints under one name, which only  *)
(* SQLite accepts; SQLite enforces both and, as opened by create_engine    *)
(* here, does not enforce FOREIGN KEY clauses.                             *)
(***************************************************************************)
EXTENDS Integers, Sequences, FiniteSets, TLC

\* Bounds of the model (the code has none of them).
MaxElections == 2
MaxPositions == 2
MaxCandidates == 2
MaxVoters == 2
MaxEntries == 2
MaxRanked == 2
MaxThreads == 2

VARIABLES
    elections,   \* number of committed rows of table elections (ids 1..elections)
    positions,   \* positions[i]: election_id of the Position with id i
    candidates,  \* candidates[i]: position_id of the Candidate with id i
    db,          \* committed rows of tables voters and votes
    tx,          \* the rows the session's open transaction sees
    pending,     \* objects added to the session and not yet flushed
    active,      \* FALSE once a flush has failed (the session refuses all work)
    nextKey,     \* stands for uuid4(): the next key handed out
    threads,     \* the vote requests in progress, when requests overlap
    last         \* the last completed request and its outcome

vars == <<elections, positions, candidates, db, tx, pending, active,
          nextKey, threads, last>>

Threads == 1..MaxThreads

----------------------------------------------------------------------------
(* Rows *)

VoterRow(eid, key) == [election_id |-> eid, key |-> key]

VoteRow(rank, cid, vid) == [rank |-> rank, candidate_id |-> cid, voter_id |-> vid]

NoRows == [voters |-> <<>>, votes |-> {}]

NoPending == [voters |-> <<>>, votes |-> <<>>]

Range(s) == {s[i] : i \in DOMAIN s}

RECURSIVE Sum(_)
Sum(s) == IF s = <<>> THEN 0 ELSE Head(s) + Sum(Tail(s))

\* The position (0 when the row does not exist) of a candidate id.
PositionOf(cid) == IF cid \in DOMAIN candidates THEN candidates[cid] ELSE 0

\* The election (0 when there is none) a candidate id belongs to.
ElectionOf(cid) ==
    IF PositionOf(cid) \in DOMAIN positions THEN positions[PositionOf(cid)] ELSE 0

----------------------------------------------------------------------------
(* The shared session *)

Session == [db |-> db, tx |-> tx, pending |-> pending, active |-> active]

Install(s) ==
    /\ db' = s.db
    /\ tx' = s.tx
    /\ pending' = s.pending
    /\ active' = s.active

\* Two rows that the UNIQUE constraints of table votes forbid together.
Clash(a, b) ==
    /\ a.candidate_id = b.candidate_id
    /\ (a.voter_id = b.voter_id \/ a.rank = b.rank)

UniqueOk(rows, new) ==
    \A i \in DOMAIN new :
        /\ \A r \in rows : ~Clash(new[i], r)
        /\ \A j \in DOMAIN new : i # j => ~Clash(new[i], new[j])

\* Session.flush(): INSERT the pending objects; on an IntegrityError the open
\* transaction is rolled back and the session stays inactive.
Flush(s) ==
    IF UniqueOk(s.tx.votes, s.pending.votes)
    THEN [s EXCEPT !.tx = [voters |-> s.tx.voters \o s.pending.voters,
                           votes |-> s.tx.votes \cup Range(s.pending.votes)],
                   !.pending = NoPending]
    ELSE [s EXCEPT !.tx = s.db, !.pending = NoPending, !.active = FALSE]

\* Session.commit()
Commit(s) ==
    LET f == Flush(s)
    IN  IF f.active THEN [f EXCEPT !.db = f.tx] ELSE f

Outcome(s, status) == [s |-> s, status |-> status]

----------------------------------------------------------------------------
(* Requests and responses *)

SeqsUpTo(S, n) == UNION {[1..k -> S] : k \in 0..n}

Min(a, b) == IF a < b THEN a ELSE b

\* request.json['positions'], as the number of candidates of each position.
Shapes == SeqsUpTo(1..MaxCandidates, MaxPositions)

\* One element of request.json['votes'].
Entries == [position_id : 1..MaxPositions,
            candidate_ids : SeqsUpTo(1..MaxCandidates, MaxRanked)]

\* The lists of at most n entries with at most r candidate ids in all.
RECURSIVE BallotsOf(_, _)
BallotsOf(n, r) ==
    IF n = 0 THEN {<<>>}
    ELSE {<<>>} \cup
         UNION {{<<e>> \o b : b \in BallotsOf(n - 1, r - Len(e.candidate_ids))} :
                   e \in {x \in Entries : Len(x.candidate_ids) <= r}}

\* request.json['votes']: at most MaxEntries elements, MaxRanked ids in all.
Ballots == BallotsOf(MaxEntries, MaxRanked)

\* What render_template('results.html') is given to show: nothing.
ResultsPage == {}

\* A response: the handler, how it ended, and what its page was given to show.
Done(op, status, context) == [op |-> op, status |-> status, context |-> context]

IdleThread ==
    [pc |-> "idle", election_id |-> 0, voter_id |-> 0, old_votes |-> {},
     votes |-> <<>>, status |-> "none"]

Idle == \A t \in Threads : threads[t] = IdleThread

----------------------------------------------------------------------------
Init ==
    /\ elections = 0
    /\ positions = <<>>
    /\ candidates = <<>>
    /\ db = NoRows
    /\ tx = NoRows
    /\ pending = NoPending
    /\ active = TRUE
    /\ nextKey = 1
    /\ threads = [t \in Threads |-> IdleThread]
    /\ last = Done("none", "none", {})

----------------------------------------------------------------------------
(* POST /election *)

\* The position_id of every Candidate row the request makes, in id order.
RECURSIVE CandidateRows(_, _, _)
CandidateRows(shape, base, j) ==
    IF j > Len(shape) THEN <<>>
    ELSE [i \in 1..shape[j] |-> base + j] \o CandidateRows(shape, base, j + 1)

create_election(shape, emails, failAt) ==
    /\ Idle
    /\ elections < MaxElections
    /\ Len(positions) + Len(shape) <= MaxPositions
    /\ Len(candidates) + Sum(shape) <= MaxCandidates
    /\ (nextKey - 1) + emails <= MaxVoters
    /\ LET eid == elections + 1
           \* session.add(election); session.commit()
           s1 == IF active THEN Commit(Session) ELSE Session
           \* the Voter objects made before a mail.send raised (failAt = 0: the
           \* admin's mail; failAt = k: the k-th voter's; emails + 1: none)
           made == Min(failAt, emails)
           s2 == [s1 EXCEPT !.pending.voters =
                      @ \o [i \in 1..made |-> VoterRow(eid, nextKey + i - 1)]]
       IN  IF ~s1.active
           THEN /\ Install(s1)
                /\ UNCHANGED <<elections, positions, candidates, nextKey>>
                /\ last' = Done("create", "db_error", {})
           ELSE /\ elections' = eid
                /\ positions' = positions \o [j \in 1..Len(shape) |-> eid]
                /\ candidates' = candidates \o CandidateRows(shape, Len(positions), 1)
                /\ nextKey' = nextKey + made
                /\ IF failAt <= emails
                   THEN /\ Install(s2)
                        /\ last' = Done("create", "mail_error", {})
                   ELSE /\ Install(Commit(s2))
                        /\ last' = Done("create", "ok", {})
    /\ UNCHANGED threads

----------------------------------------------------------------------------
(* /election/<election_id>/vote *)

\* GET: the positions query flushes the session; nothing is committed.
vote_election_get(eid) ==
    /\ Idle
    /\ LET s == IF active THEN Flush(Session) ELSE Session
       IN  /\ Install(s)
           /\ last' = Done("vote_get", IF s.active THEN "ok" ELSE "db_error", {})
    /\ UNCHANGED <<elections, positions, candidates, nextKey, threads>>

\* The query of lines 187-190 without its election_id filter.
FindVoterAnyElection(s, key, eid) ==
    {i \in DOMAIN s.tx.voters : s.tx.voters[i].key = key}

\* The ids of the Voter rows the query of lines 187-190 finds.
FindVoter(s, key, eid) ==
    {i \in DOMAIN s.tx.voters :
        s.tx.voters[i].key = key /\ s.tx.voters[i].election_id = eid}

\* The Vote rows the query of lines 192-197 finds.
OldVotes(s, vid, eid) ==
    {r \in s.tx.votes : r.voter_id = vid /\ ElectionOf(r.candidate_id) = eid}

\* Lines 187-200: find the voter, delete the old votes, commit.
VoteDelete(s, key, eid) ==
    LET f == IF s.active THEN Flush(s) ELSE s
        found == FindVoter(f, key, eid)
        vid == CHOOSE i \in found : TRUE
        old == OldVotes(f, vid, eid)
    IN  IF ~f.active
        THEN [s |-> f, status |-> "db_error", voter_id |-> 0, old_votes |-> {}]
        ELSE IF Cardinality(found) # 1
             THEN [s |-> f, status |-> "no_voter", voter_id |-> 0, old_votes |-> {}]
             ELSE [s |-> Commit([f EXCEPT !.tx.votes = @ \ old]),
                   status |-> "deleted", voter_id |-> vid, old_votes |-> old]

\* The Vote objects of one element of request.json['votes'] (lines 206-209).
EntryVotes(entry, vid) ==
    [i \in DOMAIN entry.candidate_ids |-> VoteRow(i, entry.candidate_ids[i], vid)]

\* Lines 202-212: the loop from element i on, then the commit.
RECURSIVE VoteInsert(_, _, _, _)
VoteInsert(s, vid, votes, i) ==
    IF ~s.active THEN Outcome(s, "db_error")
    ELSE IF i > Len(votes)
         THEN LET c == Commit(s)
              IN  Outcome(c, IF c.active THEN "ok" ELSE "db_error")
         ELSE LET f == Flush(s)
              IN  IF ~f.active THEN Outcome(f, "db_error")
                  ELSE IF votes[i].position_id \notin DOMAIN positions
                       THEN Outcome(f, "no_position")
                       ELSE VoteInsert(
                                [f EXCEPT !.pending.votes = @ \o EntryVotes(votes[i], vid)],
                                vid, votes, i + 1)

\* POST, when no other request overlaps it.
vote_election(key, eid, votes) ==
    /\ Idle
    /\ LET a == VoteDelete(Session, key, eid)
           b == VoteInsert(a.s, a.voter_id, votes, 1)
       IN  IF a.status # "deleted"
           THEN /\ Install(a.s)
                /\ last' = Done("vote", a.status, {})
           ELSE /\ Install(b.s)
                /\ last' = Done("vote", b.status, {})
    /\ UNCHANGED <<elections, positions, candidates, nextKey, threads>>

\* The handler reads request.json['votes'] only once it has found the voter.
VotesRead(key, eid) ==
    IF VoteDelete(Session, key, eid).status = "deleted" THEN Ballots ELSE {<<>>}

----------------------------------------------------------------------------
(* GET /election/<election_id>/results *)

results_election(eid) ==
    /\ Idle
    /\ last' = Done("results", "ok", ResultsPage)
    /\ UNCHANGED <<elections, positions, candidates, db, tx, pending, active,
                   nextKey, threads>>

----------------------------------------------------------------------------
(* Overlapping vote requests: a request may start between another request's
   commit of line 200 and its first query of line 203, where no transaction
   is open. *)

\* The requests are named in their order of arrival.
vote_begin(t, key, eid, votes) ==
    /\ threads[t].pc = "idle"
    /\ \A u \in Threads : u < t => threads[u].pc # "idle"
    /\ LET a == VoteDelete(Session, key, eid)
       IN  /\ Install(a.s)
           /\ threads' = [threads EXCEPT ![t] =
                  [pc |-> IF a.status = "deleted" THEN "deleted" ELSE "done",
                   election_id |-> eid, voter_id |-> a.voter_id,
                   old_votes |-> a.old_votes, votes |-> votes,
                   status |-> a.status]]
    /\ UNCHANGED <<elections, positions, candidates, nextKey, last>>

vote_finish(t) ==
    /\ threads[t].pc = "deleted"
    /\ LET b == VoteInsert(Session, threads[t].voter_id, threads[t].votes, 1)
       IN  /\ Install(b.s)
           /\ threads' = [threads EXCEPT ![t].pc = "done", ![t].status = b.status]
    /\ UNCHANGED <<elections, positions, candidates, nextKey, last>>

----------------------------------------------------------------------------
Next ==
    \/ \E shape \in Shapes, emails \in 0..MaxVoters :
           \E failAt \in 0..(emails + 1) : create_election(shape, emails, failAt)
    \/ \E eid \in 1..MaxElections : vote_election_get(eid)
    \/ \E key \in 0..MaxVoters, eid \in 1..MaxElections :
           \E votes \in VotesRead(key, eid) : vote_election(key, eid, votes)
    \/ \E eid \in 1..MaxElections : results_election(eid)

Spec == Init /\ [][Next]_vars

\* One election with one position of two candidates and one voter, who may
\* have a ballot stored: what POST /election and a vote leave behind.
InitConc ==
    /\ elections = 1
    /\ positions = <<1>>
    /\ candidates = <<1, 1>>
    /\ \E rows \in {{}, {VoteRow(1, 1, 1)}} :
           /\ db = [voters |-> <<VoterRow(1, 1)>>, votes |-> rows]
           /\ tx = db
    /\ pending = NoPending
    /\ active = TRUE
    /\ nextKey = 2
    /\ threads = [t \in Threads |-> IdleThread]
    /\ last = Done("none", "none", {})

NextConc ==
    \/ \E t \in Threads, key \in 0..MaxVoters, eid \in 1..MaxElections :
           \E votes \in VotesRead(key, eid) : vote_begin(t, key, eid, votes)
    \/ \E t \in Threads : vote_finish(t)

SpecConc == InitConc /\ [][NextConc]_vars

----------------------------------------------------------------------------
(* Stored ballots *)

\* The rows of one voter.
VotesOf(rows, vid) == {r \in rows : r.voter_id = vid}

\* The rows of one voter for the candidates of one position.
StoredBallot(rows, vid, pid) ==
    {r \in rows : r.voter_id = vid /\ PositionOf(r.candidate_id) = pid}

\* The Voter rows a request's first query sees.
Seen == tx.voters \o pending.voters

\* Whether a vote request with this key for this election finds its voter:
\* exactly one Voter row the session can see has the key and the election.
Known(key, eid) ==
    Cardinality({i \in DOMAIN Seen : Seen[i] = VoterRow(eid, key)}) = 1

VoterId(key, eid) == CHOOSE i \in DOMAIN Seen : Seen[i] = VoterRow(eid, key)

Keys == 0..MaxVoters

ElectionIds == 1..MaxElections

\* No failed request has left anything in the session.
Clean == active /\ pending = NoPending /\ tx = db

\* The positions of an election and the candidates of a position.
PositionsOf(eid) == {p \in DOMAIN positions : positions[p] = eid}

CandidatesOf(pid) == {c \in DOMAIN candidates : candidates[c] = pid}

\* An entry that is a ballot for its position in the election: distinct
\* candidates of that position.
IsBallot(eid, entry) ==
    /\ entry.position_id \in PositionsOf(eid)
    /\ \A j \in DOMAIN entry.candidate_ids :
           /\ entry.candidate_ids[j] \in CandidatesOf(entry.position_id)
           /\ \A k \in DOMAIN entry.candidate_ids :
                  j # k => entry.candidate_ids[j] # entry.candidate_ids[k]

\* A request of ballots, at most one for a position.
WellFormed(eid, votes) ==
    /\ \A i \in DOMAIN votes : IsBallot(eid, votes[i])
    /\ \A i, j \in DOMAIN votes :
           i # j => votes[i].position_id # votes[j].position_id

\* Some entry lists a candidate that is not a candidate of its position, or
\* names a position that is not one of the election.
Foreign(eid, votes) ==
    \E i \in DOMAIN votes :
        \/ votes[i].position_id \notin PositionsOf(eid)
        \/ \E j \in DOMAIN votes[i].candidate_ids :
               votes[i].candidate_ids[j] \notin CandidatesOf(votes[i].position_id)

\* Ranks 1..N, each once (no candidate twice follows from the constraints).
Gapless(rows) ==
    /\ {r.rank : r \in rows} = 1..Cardinality(rows)
    /\ \A a, b \in rows : a.candidate_id = b.candidate_id => a = b

----------------------------------------------------------------------------
\* C10: a vote POST whose key is not the key of exactly one voter of the
\* election in the URL leaves the committed Vote rows as they were.
C10_UnknownKeyChangesNothing ==
    [][\/ db'.votes = db.votes
       \/ \A key \in Keys, eid \in ElectionIds :
              ~Known(key, eid) =>
                  \A votes \in VotesRead(key, eid) :
                      ~vote_election(key, eid, votes)]_vars

\* A vote POST was refused for its key while a voter of election 2 and a
\* vote for a candidate of election 1 were stored.
C10_Witness ==
    /\ last.op = "vote"
    /\ last.status = "no_voter"
    /\ \E i \in DOMAIN db.voters : db.voters[i].election_id = 2
    /\ \E r \in db.votes : ElectionOf(r.candidate_id) = 1

----------------------------------------------------------------------------
\* No two entries of the request name the same position.
OnePerPosition(votes) ==
    \A i, j \in DOMAIN votes : i # j => votes[i].position_id # votes[j].position_id

\* C1: after an accepted vote POST (one entry for a position), the voter's
\* stored ballot for each position of the request is the content the request
\* gave for it.
C1_LatestBallotStored ==
    [][(last'.op = "vote" /\ last'.status = "ok") =>
           \A key \in Keys, eid \in ElectionIds :
               Known(key, eid) =>
                   \A votes \in Ballots :
                       (OnePerPosition(votes) /\ vote_election(key, eid, votes)) =>
                           \A i \in DOMAIN votes :
                               StoredBallot(db'.votes, VoterId(key, eid),
                                            votes[i].position_id)
                                   = Range(EntryVotes(votes[i], VoterId(key, eid)))]_vars

\* C2: a vote POST that fails after its voter was found leaves that voter's
\* committed rows as they were.
C2_FailedVoteKeepsBallots ==
    [][(last'.op = "vote" /\ last'.status \in {"no_position", "db_error"}) =>
           \/ db'.votes = db.votes
           \/ \A key \in Keys, eid \in ElectionIds :
                  Known(key, eid) =>
                      \A votes \in Ballots :
                          vote_election(key, eid, votes) =>
                              VotesOf(db'.votes, VoterId(key, eid))
                                  = VotesOf(db.votes, VoterId(key, eid))]_vars

\* C4: no vote POST with an entry that lists a candidate outside the entry's
\* position (or a position outside the election) is accepted.
C4_ForeignCandidateRejected ==
    [][(last'.op = "vote" /\ last'.status = "ok") =>
           \A key \in Keys, eid \in ElectionIds :
               Known(key, eid) =>
                   \A votes \in Ballots :
                       Foreign(eid, votes) => ~vote_election(key, eid, votes)]_vars

\* C5: the committed rows of every voter for every position have the ranks
\* 1..N, each once, and no candidate twice.
C5_StoredBallotsWellFormed ==
    \A vid \in DOMAIN db.voters, pid \in DOMAIN positions :
        Gapless(StoredBallot(db.votes, vid, pid))

\* C6: whenever POST /election has committed the election, whether or not a
\* mail.send raised, every address has its Voter row committed and the
\* session holds no pending Voter.
C6_MailFailureNotFatal ==
    [][last'.op = "create" =>
           \A shape \in Shapes, emails \in 0..MaxVoters :
               \A failAt \in 0..(emails + 1) :
                   (create_election(shape, emails, failAt) /\ elections' # elections)
                       => /\ Cardinality({i \in DOMAIN db'.voters :
                                 db'.voters[i].election_id = elections'}) = emails
                          /\ pending'.voters = <<>>]_vars

\* C8: an accepted vote POST whose entries are ballots for one position
\* leaves the voter's ballots for the other positions of the election alone.
C8_OtherPositionsUntouched ==
    [][(last'.op = "vote" /\ last'.status = "ok") =>
           \A key \in Keys, eid \in ElectionIds :
               Known(key, eid) =>
                   \A votes \in Ballots :
                       (/\ WellFormed(eid, votes)
                        /\ Len(votes) = 1
                        /\ vote_election(key, eid, votes)) =>
                           \A q \in PositionsOf(eid) \ {votes[1].position_id} :
                               StoredBallot(db'.votes, VoterId(key, eid), q)
                                   = StoredBallot(db.votes, VoterId(key, eid), q)]_vars

\* C9: a request of well-formed ballots from a voter of the election, made
\* when no earlier request has left anything behind, is accepted whatever
\* the other voters have stored.
C9_IndependentVoters ==
    [][(last'.op = "vote" /\ last'.status # "ok") =>
           \A key \in Keys, eid \in ElectionIds :
               (Known(key, eid) /\ Clean) =>
                   \A votes \in Ballots :
                       WellFormed(eid, votes) => ~vote_election(key, eid, votes)]_vars

----------------------------------------------------------------------------
(* The tally the results page is specified to show (spec 4.3) *)

NoWinner == 0

\* The candidate among act that a voter's rows rank highest (0: none left).
TopChoice(rows, vid, act) ==
    LET mine == {r \in rows : r.voter_id = vid /\ r.candidate_id \in act}
    IN  IF mine = {} THEN 0
        ELSE (CHOOSE r \in mine :
                 \A q \in mine :
                     \/ r.rank < q.rank
                     \/ r.rank = q.rank /\ r.candidate_id <= q.candidate_id
             ).candidate_id

\* Instant-runoff rounds over the active candidates: a candidate with more
\* than half of the counted ballots wins; otherwise all candidates at the
\* minimum count are eliminated together.
RECURSIVE Resolve(_, _)
Resolve(act, rows) ==
    LET counted == {v \in {r.voter_id : r \in rows} : TopChoice(rows, v, act) # 0}
        count(c) == Cardinality({v \in counted : TopChoice(rows, v, act) = c})
        majority == {c \in act : 2 * count(c) > Cardinality(counted)}
        rest == {c \in act : \E d \in act : count(d) < count(c)}
    IN  IF act = {} THEN NoWinner
        ELSE IF majority # {} THEN CHOOSE c \in majority : TRUE
        ELSE IF Cardinality(rest) = 1 THEN CHOOSE c \in rest : TRUE
        ELSE Resolve(rest, rows)

TallyReport(eid) ==
    {[position_id |-> p, winner |-> Resolve(CandidatesOf(p), db.votes)] :
        p \in PositionsOf(eid)}

\* C7: the results page of an election is given the instant-runoff tally of
\* the stored ballots of each of its positions.
C7_ResultsAreTheTally ==
    [][last'.op = "results" =>
           \A eid \in ElectionIds :
               results_election(eid) => last'.context = TallyReport(eid)]_vars

\* C3, first half: between a request's delete and its insert nobody reads
\* zero rows for a ballot that had rows and is being given rows.
C3_NeverSeenEmpty ==
    \A t \in Threads :
        threads[t].pc = "deleted" =>
            \A i \in DOMAIN threads[t].votes :
                LET pid == threads[t].votes[i].position_id
                    vid == threads[t].voter_id
                IN  (/\ StoredBallot(threads[t].old_votes, vid, pid) # {}
                     /\ threads[t].votes[i].candidate_ids # <<>>)
                        => StoredBallot(db.votes, vid, pid) # {}

\* C3, second half: accepted overlapping requests of one voter, each one
\* ballot for the same position, leave the ballot of one of them.
C3_OneOfTheTwo ==
    (/\ \A t \in Threads : threads[t].pc = "done" /\ threads[t].status = "ok"
     /\ \A t \in Threads :
            /\ threads[t].voter_id = threads[1].voter_id
            /\ threads[t].election_id = threads[1].election_id
     /\ \A t \in Threads :
            /\ Len(threads[t].votes) = 1
            /\ WellFormed(threads[t].election_id, threads[t].votes)
     /\ \A t \in Threads :
            threads[t].votes[1].position_id = threads[1].votes[1].position_id)
        => \E t \in Threads :
               StoredBallot(db.votes, threads[1].voter_id,
                            threads[1].votes[1].position_id)
                   = Range(EntryVotes(threads[t].votes[1], threads[1].voter_id))

\* C3: replacing a ballot is atomic for overlapping requests.
C3_AtomicReplace == C3_NeverSeenEmpty /\ C3_OneOfTheTwo
====
